---- MODULE Spec2Model ----
(***************************************************************************)
(* Policy builder and policy evaluator of flarelette-hono (src/src/policy.ts). *)
(*                                                                         *)
(* JavaScript values are modelled as follows.                              *)
(*   - a string is a TLA+ string; template literals and Array.join are     *)
(*     string concatenation (\o);                                          *)
(*   - a claim field (payload.roles, payload.permissions) is a tagged      *)
(*     value: undefined (the field is absent), a bare string, a number,    *)
(*     or an array of strings;                                             *)
(*   - an array is a sequence.                                             *)
(***************************************************************************)
EXTENDS Naturals, Sequences, FiniteSets, TLC

VARIABLES
    rules,      \* PolicyBuilderImpl.rules: the builder's accumulated rules
    policies,   \* built PolicyImpl objects, each given by its own rules array
    call,       \* the most recent call: its arguments and how it ended
    payload,    \* the JwtPayload handed to the most recent evaluate
    result,     \* the PolicyResult the most recent evaluate returned
    visited,    \* indices of the rules that evaluate handed to evaluateRule
    tasks,      \* evaluate calls under way side by side on one shared policy
    request,    \* the request a guard middleware is handling, and its environment
    ctx         \* the Hono context of that request and the handler's position

vars == <<rules, policies, call, payload, result, visited, tasks, request, ctx>>

----------------------------------------------------------------------------
(* Bounds of the model *)

MaxRules == 2       \* rules a builder accumulates, and so a policy holds
MaxArgs == 2        \* identifiers passed to one builder call
MaxClaimLen == 2    \* elements of a roles / permissions array
MaxPolicies == 2    \* policies built from one builder

Min(a, b) == IF a < b THEN a ELSE b

\* identifiers the builder methods are called with
ReqPool == <<"admin", "user", "guest">>

\* argument lists of a builder call: the empty list and the first n
\* identifiers of ReqPool
ArgLists == {SubSeq(ReqPool, 1, n) : n \in 0..Min(MaxArgs, Len(ReqPool))}

\* arrays found in claims: the first n identifiers of ReqPool, the same in
\* another order, and identifiers that differ from "admin" only in case or
\* in a leading blank
ClaimArrays ==
    {SubSeq(ReqPool, 1, n) : n \in 0..Min(MaxClaimLen, Len(ReqPool))}
        \cup {<<"user">>, <<"user", "admin">>, <<"Admin">>, <<" admin">>}

----------------------------------------------------------------------------
(* JavaScript values of a claim field *)

Undefined == [tag |-> "undefined", str |-> "", arr |-> <<>>]
Str(s) == [tag |-> "string", str |-> s, arr |-> <<>>]
Num == [tag |-> "number", str |-> "", arr |-> <<>>]
Arr(a) == [tag |-> "array", str |-> "", arr |-> a]

\* Array.isArray(v)
IsArray(v) == v.tag = "array"

\* identifiers with case and surrounding blanks removed
Normalized(s) ==
    CASE s = "Admin" -> "admin"
      [] s = " admin" -> "admin"
      [] OTHER -> s

\* includes that compares identifiers after trimming and case folding
IncludesNormalized(a, x) == \E i \in 1..Len(a) : Normalized(a[i]) = Normalized(x)

\* Array.prototype.includes on an array of strings: strict equality
Includes(a, x) == \E i \in 1..Len(a) : a[i] = x

\* Array.prototype.join(sep)
RECURSIVE Join(_, _)
Join(a, sep) ==
    IF Len(a) = 0 THEN ""
    ELSE IF Len(a) = 1 THEN a[1]
    ELSE a[1] \o sep \o Join(Tail(a), sep)

\* values of payload.roles and payload.permissions
FieldValues == {Undefined, Str("admin"), Num} \cup {Arr(a) : a \in ClaimArrays}

\* values of payload.sub: a subject, and a subject named like a role
SubValues == {Str("user-123"), Str("admin")}

\* JwtPayload objects: the two fields the evaluator reads, and the subject
\* as one of the other claims of a token
Payloads == [roles : FieldValues, permissions : FieldValues, sub : SubValues]

\* no evaluate call has been made
NoPayload ==
    [roles |-> Undefined, permissions |-> Undefined, sub |-> Undefined, none |-> TRUE]

----------------------------------------------------------------------------
(* PolicyResult and PolicyImpl *)

Success == [success |-> TRUE]
Failure(reason) == [success |-> FALSE, reason |-> reason]
None == [none |-> TRUE]

\* evaluateRolesAny counting the subject of the token among its roles
evaluateRolesAnyWithSubject(required, p) ==
    LET roles == IF IsArray(p.roles)
                 THEN Arr(Append(p.roles.arr, p.sub.str))
                 ELSE p.roles
    IN
    IF ~IsArray(roles) \/ Len(roles.arr) = 0
    THEN Failure("Missing required roles: at least one of ["
                    \o Join(required, ", ") \o "]")
    ELSE LET hasRole == \E i \in 1..Len(required) : Includes(roles.arr, required[i])
         IN  IF ~hasRole
             THEN Failure("Missing required roles: at least one of ["
                             \o Join(required, ", ") \o "]")
             ELSE Success

\* evaluateRolesAny with a reason of its own for an absent roles field
evaluateRolesAnyAbsentReason(required, p) ==
    LET roles == p.roles IN
    IF roles = Undefined
    THEN Failure("Missing roles claim")
    ELSE IF ~IsArray(roles) \/ Len(roles.arr) = 0
    THEN Failure("Missing required roles: at least one of ["
                    \o Join(required, ", ") \o "]")
    ELSE LET hasRole == \E i \in 1..Len(required) : Includes(roles.arr, required[i])
         IN  IF ~hasRole
             THEN Failure("Missing required roles: at least one of ["
                             \o Join(required, ", ") \o "]")
             ELSE Success

evaluateRolesAny(required, p) ==
    LET roles == p.roles IN
    IF ~IsArray(roles) \/ Len(roles.arr) = 0
    THEN Failure("Missing required roles: at least one of ["
                    \o Join(required, ", ") \o "]")
    ELSE LET hasRole == \E i \in 1..Len(required) : Includes(roles.arr, required[i])
         IN  IF ~hasRole
             THEN Failure("Missing required roles: at least one of ["
                             \o Join(required, ", ") \o "]")
             ELSE Success

\* evaluateRolesAll failing for a role that is held and not required
evaluateRolesAllExact(required, p) ==
    LET roles == p.roles IN
    IF ~IsArray(roles) \/ Len(roles.arr) = 0
    THEN Failure("Missing required roles: all of ["
                    \o Join(required, ", ") \o "]")
    ELSE LET notIncluded(role) == ~Includes(roles.arr, role)
             notRequired(role) == ~Includes(required, role)
             missingRoles == SelectSeq(required, notIncluded)
             extraRoles == SelectSeq(roles.arr, notRequired)
         IN  IF Len(missingRoles) > 0 \/ Len(extraRoles) > 0
             THEN Failure("Missing required roles: all of ["
                             \o Join(required, ", ") \o "]")
             ELSE Success

\* evaluateRolesAll naming only the missing roles in its reason
evaluateRolesAllListsMissing(required, p) ==
    LET roles == p.roles IN
    IF ~IsArray(roles) \/ Len(roles.arr) = 0
    THEN Failure("Missing required roles: all of ["
                    \o Join(required, ", ") \o "]")
    ELSE LET notIncluded(role) == ~Includes(roles.arr, role)
             missingRoles == SelectSeq(required, notIncluded)
         IN  IF Len(missingRoles) > 0
             THEN Failure("Missing required roles: all of ["
                             \o Join(missingRoles, ", ") \o "]")
             ELSE Success

\* evaluateRolesAll with some in place of the filter for missing roles
evaluateRolesAllAsAny(required, p) ==
    LET roles == p.roles IN
    IF ~IsArray(roles) \/ Len(roles.arr) = 0
    THEN Failure("Missing required roles: all of ["
                    \o Join(required, ", ") \o "]")
    ELSE LET hasRole == \E i \in 1..Len(required) : Includes(roles.arr, required[i])
         IN  IF ~hasRole
             THEN Failure("Missing required roles: all of ["
                             \o Join(required, ", ") \o "]")
             ELSE Success

evaluateRolesAll(required, p) ==
    LET roles == p.roles IN
    IF ~IsArray(roles) \/ Len(roles.arr) = 0
    THEN Failure("Missing required roles: all of ["
                    \o Join(required, ", ") \o "]")
    ELSE LET notIncluded(role) == ~Includes(roles.arr, role)
             missingRoles == SelectSeq(required, notIncluded)
         IN  IF Len(missingRoles) > 0
             THEN Failure("Missing required roles: all of ["
                             \o Join(required, ", ") \o "]")
             ELSE Success

\* evaluateNeedAny taking a bare string for an array of that one string
evaluateNeedAnyCoerced(required, p) ==
    LET permissions == IF p.permissions.tag = "string"
                       THEN Arr(<<p.permissions.str>>)
                       ELSE p.permissions
    IN
    IF ~IsArray(permissions) \/ Len(permissions.arr) = 0
    THEN Failure("Missing required permissions: at least one of ["
                    \o Join(required, ", ") \o "]")
    ELSE LET hasPermission ==
                 \E i \in 1..Len(required) : Includes(permissions.arr, required[i])
         IN  IF ~hasPermission
             THEN Failure("Missing required permissions: at least one of ["
                             \o Join(required, ", ") \o "]")
             ELSE Success

evaluateNeedAny(required, p) ==
    LET permissions == p.permissions IN
    IF ~IsArray(permissions) \/ Len(permissions.arr) = 0
    THEN Failure("Missing required permissions: at least one of ["
                    \o Join(required, ", ") \o "]")
    ELSE LET hasPermission ==
                 \E i \in 1..Len(required) : Includes(permissions.arr, required[i])
         IN  IF ~hasPermission
             THEN Failure("Missing required permissions: at least one of ["
                             \o Join(required, ", ") \o "]")
             ELSE Success

\* evaluateNeedAll reading payload.roles
evaluateNeedAllOnRoles(required, p) ==
    LET permissions == p.roles IN
    IF ~IsArray(permissions) \/ Len(permissions.arr) = 0
    THEN Failure("Missing required permissions: all of ["
                    \o Join(required, ", ") \o "]")
    ELSE LET notIncluded(perm) == ~Includes(permissions.arr, perm)
             missingPermissions == SelectSeq(required, notIncluded)
         IN  IF Len(missingPermissions) > 0
             THEN Failure("Missing required permissions: all of ["
                             \o Join(required, ", ") \o "]")
             ELSE Success

evaluateNeedAll(required, p) ==
    LET permissions == p.permissions IN
    IF ~IsArray(permissions) \/ Len(permissions.arr) = 0
    THEN Failure("Missing required permissions: all of ["
                    \o Join(required, ", ") \o "]")
    ELSE LET notIncluded(perm) == ~Includes(permissions.arr, perm)
             missingPermissions == SelectSeq(required, notIncluded)
         IN  IF Len(missingPermissions) > 0
             THEN Failure("Missing required permissions: all of ["
                             \o Join(required, ", ") \o "]")
             ELSE Success

evaluateRule(rule, p) ==
    CASE rule.type = "rolesAny" -> evaluateRolesAny(rule.roles, p)
      [] rule.type = "rolesAll" -> evaluateRolesAll(rule.roles, p)
      [] rule.type = "needAny" -> evaluateNeedAny(rule.permissions, p)
      [] rule.type = "needAll" -> evaluateNeedAll(rule.permissions, p)

\* the loop returning at the first rule that passes
RECURSIVE evaluateLoopAnyPasses(_, _, _)
evaluateLoopAnyPasses(rs, i, p) ==
    IF i > Len(rs)
    THEN [result |-> Success, visited |-> [k \in 1..Len(rs) |-> k],
          rules |-> rs, payload |-> p]
    ELSE LET r == evaluateRule(rs[i], p)
         IN  IF r.success
             THEN [result |-> r, visited |-> [k \in 1..i |-> k],
                   rules |-> rs, payload |-> p]
             ELSE evaluateLoopAnyPasses(rs, i + 1, p)

\* the loop without the early return: it runs to the end and reports the
\* last failure it saw
RECURSIVE evaluateLoopLastFailure(_, _, _)
evaluateLoopLastFailure(rs, i, p) ==
    IF i > Len(rs)
    THEN [result |-> Success, visited |-> [k \in 1..Len(rs) |-> k],
          rules |-> rs, payload |-> p]
    ELSE LET r == evaluateRule(rs[i], p)
             rest == evaluateLoopLastFailure(rs, i + 1, p)
         IN  IF ~rest.result.success \/ r.success
             THEN rest
             ELSE [result |-> r, visited |-> rest.visited,
                   rules |-> rs, payload |-> p]

\* the for-of loop of evaluate, from rule i on; visited lists the indices of
\* the rules handed to evaluateRule; rules and payload are the policy's rules
\* array and the payload object as the call leaves them (join, some, includes
\* and filter change neither)
\* the loop of evaluate looking at the first rule only
evaluateLoopFirstOnly(rs, i, p) ==
    LET r == evaluateRule(rs[1], p)
    IN  [result |-> IF r.success THEN Success ELSE r, visited |-> <<1>>,
         rules |-> rs, payload |-> p]

\* the loop of evaluate returning what the last rule returns
evaluateLoopLastOnly(rs, i, p) ==
    LET r == evaluateRule(rs[Len(rs)], p)
    IN  [result |-> IF r.success THEN Success ELSE r, visited |-> <<Len(rs)>>,
         rules |-> rs, payload |-> p]

RECURSIVE evaluateLoop(_, _, _)
evaluateLoop(rs, i, p) ==
    IF i > Len(rs)
    THEN [result |-> Success, visited |-> [k \in 1..Len(rs) |-> k],
          rules |-> rs, payload |-> p]
    ELSE LET r == evaluateRule(rs[i], p)
         IN  IF ~r.success
             THEN [result |-> r, visited |-> [k \in 1..i |-> k],
                   rules |-> rs, payload |-> p]
             ELSE evaluateLoop(rs, i + 1, p)

\* an array after Array.prototype.sort
Sorted(v) == IF v = Arr(<<"user", "admin">>) THEN Arr(<<"admin", "user">>) ELSE v

\* evaluate sorting the roles of the payload in place before it looks at them
evaluateSortingClaims(rs, p) ==
    IF Len(rs) = 0
    THEN [result |-> Success, visited |-> <<>>, rules |-> rs, payload |-> p]
    ELSE [evaluateLoop(rs, 1, p) EXCEPT !.payload = [p EXCEPT !.roles = Sorted(p.roles)]]

\* evaluate denying when the policy has no rule
evaluateDenyEmpty(rs, p) ==
    IF Len(rs) = 0
    THEN [result |-> Failure("No rules"), visited |-> <<>>,
          rules |-> rs, payload |-> p]
    ELSE evaluateLoop(rs, 1, p)

\* PolicyImpl.evaluate on a policy whose rules array is rs
evaluate(rs, p) ==
    IF Len(rs) = 0
    THEN [result |-> Success, visited |-> <<>>, rules |-> rs, payload |-> p]
    ELSE evaluateLoop(rs, 1, p)

\* an evaluate call under way: its position in the for loop over this.rules,
\* its payload and, once it has returned, its result
Task(pc, i, p, r) == [pc |-> pc, i |-> i, payload |-> p, result |-> r]

\* one step of evaluate which takes each rule off the front of this.rules
evaluateStepShifting(rs, task) ==
    IF task.pc = "called"
    THEN IF Len(rs) = 0
         THEN [rules |-> rs, task |-> Task("returned", 0, task.payload, Success)]
         ELSE [rules |-> rs, task |-> Task("loop", 1, task.payload, None)]
    ELSE IF Len(rs) = 0
         THEN [rules |-> rs, task |-> Task("returned", task.i, task.payload, Success)]
         ELSE LET r == evaluateRule(Head(rs), task.payload)
              IN  IF ~r.success
                  THEN [rules |-> Tail(rs),
                        task |-> Task("returned", task.i, task.payload, r)]
                  ELSE [rules |-> Tail(rs),
                        task |-> Task("loop", task.i + 1, task.payload, None)]

\* one step of evaluate: the test for an empty policy on entry, then one
\* iteration of the for loop per step; maps this.rules to the array after the
\* step
evaluateStep(rs, task) ==
    IF task.pc = "called"
    THEN IF Len(rs) = 0
         THEN [rules |-> rs, task |-> Task("returned", 0, task.payload, Success)]
         ELSE [rules |-> rs, task |-> Task("loop", 1, task.payload, None)]
    ELSE IF task.i > Len(rs)
         THEN [rules |-> rs, task |-> Task("returned", task.i, task.payload, Success)]
         ELSE LET r == evaluateRule(rs[task.i], task.payload)
              IN  IF ~r.success
                  THEN [rules |-> rs,
                        task |-> Task("returned", task.i, task.payload, r)]
                  ELSE [rules |-> rs,
                        task |-> Task("loop", task.i + 1, task.payload, None)]

----------------------------------------------------------------------------
(* PolicyBuilderImpl: each method maps the rules array to the array after *)
(* the call and tells how the call ended                                  *)

\* return this
Returned(rs) == [rules |-> rs, threw |-> FALSE, message |-> "", returned |-> "this"]
\* throw new Error(msg)
Threw(rs, msg) == [rules |-> rs, threw |-> TRUE, message |-> msg, returned |-> "none"]

\* rolesAny pushing the rule before it checks the arguments
rolesAnyPushFirst(rs, roles) ==
    LET pushed == Append(rs, [type |-> "rolesAny", roles |-> roles]) IN
    IF Len(roles) = 0
    THEN Threw(pushed, "rolesAny requires at least one role")
    ELSE Returned(pushed)

rolesAny(rs, roles) ==
    IF Len(roles) = 0
    THEN Threw(rs, "rolesAny requires at least one role")
    ELSE Returned(Append(rs, [type |-> "rolesAny", roles |-> roles]))

\* rolesAll putting the rule in front of the earlier ones
rolesAllUnshift(rs, roles) ==
    IF Len(roles) = 0
    THEN Threw(rs, "rolesAll requires at least one role")
    ELSE Returned(<<[type |-> "rolesAll", roles |-> roles]>> \o rs)

rolesAll(rs, roles) ==
    IF Len(roles) = 0
    THEN Threw(rs, "rolesAll requires at least one role")
    ELSE Returned(Append(rs, [type |-> "rolesAll", roles |-> roles]))

\* needAny without the check of its arguments
needAnyUnchecked(rs, permissions) ==
    Returned(Append(rs, [type |-> "needAny", permissions |-> permissions]))

needAny(rs, permissions) ==
    IF Len(permissions) = 0
    THEN Threw(rs, "needAny requires at least one permission")
    ELSE Returned(Append(rs, [type |-> "needAny", permissions |-> permissions]))

\* needAll with the message of the role methods
needAllRoleMessage(rs, permissions) ==
    IF Len(permissions) = 0
    THEN Threw(rs, "needAll requires at least one role")
    ELSE Returned(Append(rs, [type |-> "needAll", permissions |-> permissions]))

needAll(rs, permissions) ==
    IF Len(permissions) = 0
    THEN Threw(rs, "needAll requires at least one permission")
    ELSE Returned(Append(rs, [type |-> "needAll", permissions |-> permissions]))

\* The rules field of a PolicyImpl is a reference to an array: an array of
\* its own (given by its contents), or the very array the builder pushes to.
\* The rule objects in a copy are shared with the builder; no method changes
\* a rule object.
OwnArray(a) == [shared |-> FALSE, arr |-> a]
BuilderArray == [shared |-> TRUE, arr |-> <<>>]

\* the contents of the array behind a reference, the builder holding rs
RulesOf(ref, rs) == IF ref.shared THEN rs ELSE ref.arr

\* build() handing the builder's own array to the policy
buildAliased(rs) == [rules |-> rs, policy |-> BuilderArray]

\* build() starting the builder afresh once the policy is made
buildDraining(rs) == [rules |-> <<>>, policy |-> OwnArray([k \in 1..Len(rs) |-> rs[k]])]

\* build(): a PolicyImpl over a frozen copy of the rules array; this.rules
\* stays as it is
build(rs) == [rules |-> rs, policy |-> OwnArray([k \in 1..Len(rs) |-> rs[k]])]

----------------------------------------------------------------------------
(* The state machine *)

NoCall ==
    [op |-> "none", args |-> <<>>, policy |-> 0, threw |-> FALSE, message |-> "",
     returned |-> "none"]

BuilderCall(op, args, r) ==
    [op |-> op, args |-> args, policy |-> 0, threw |-> r.threw, message |-> r.message,
     returned |-> r.returned]

\* the rules of the n-th built policy
PolicyRules(n) == RulesOf(policies[n], rules)

\* no evaluation is under way side by side, no request is being handled
NoTasks == <<>>
NoRequest == [none |-> TRUE]
NoContext == [none |-> TRUE]

Init ==
    /\ rules = <<>>
    /\ policies = <<>>
    /\ call = NoCall
    /\ payload = NoPayload
    /\ result = None
    /\ visited = <<>>
    /\ tasks = NoTasks
    /\ request = NoRequest
    /\ ctx = NoContext

\* argument lists of the builder calls of the life cycle: none, one and two
\* identifiers
LifeArgs == {<<>>, <<"admin">>, <<"admin", "user">>}

\* a builder method is called with the argument list args
Append_(op, args, r) ==
    /\ args \in LifeArgs
    /\ Len(args) > 0 => Len(rules) < MaxRules
    /\ rules' = r.rules
    /\ call' = BuilderCall(op, args, r)
    /\ payload' = NoPayload
    /\ result' = None
    /\ visited' = <<>>
    /\ UNCHANGED <<policies, tasks, request, ctx>>

CallRolesAny == \E args \in LifeArgs : Append_("rolesAny", args, rolesAny(rules, args))
CallRolesAll == \E args \in LifeArgs : Append_("rolesAll", args, rolesAll(rules, args))
CallNeedAny == \E args \in LifeArgs : Append_("needAny", args, needAny(rules, args))
CallNeedAll == \E args \in LifeArgs : Append_("needAll", args, needAll(rules, args))

CallBuild ==
    /\ Len(policies) < MaxPolicies
    /\ LET b == build(rules)
       IN  /\ policies' = Append(policies, b.policy)
           /\ rules' = b.rules
    /\ call' = [op |-> "build", args |-> <<>>, policy |-> Len(policies) + 1,
                threw |-> FALSE, message |-> "", returned |-> "policy"]
    /\ payload' = NoPayload
    /\ result' = None
    /\ visited' = <<>>
    /\ UNCHANGED <<tasks, request, ctx>>

\* policies[n].evaluate(p)
Evaluate(n, p) ==
    /\ n \in 1..Len(policies)
    /\ LET run == evaluate(PolicyRules(n), p)
       IN  /\ result' = run.result
           /\ visited' = run.visited
           /\ payload' = run.payload
           /\ IF policies[n].shared
              THEN rules' = run.rules /\ policies' = policies
              ELSE rules' = rules /\ policies' = [policies EXCEPT ![n].arr = run.rules]
    /\ call' = [op |-> "evaluate", args |-> <<p>>, policy |-> n,
                threw |-> FALSE, message |-> "", returned |-> "result"]

\* claims the built policies are evaluated on in the builder's life cycle
LifePayloads ==
    {[roles |-> Undefined, permissions |-> Undefined, sub |-> Str("user-123")],
     [roles |-> Arr(<<"user", "admin">>), permissions |-> Arr(<<"admin">>),
      sub |-> Str("user-123")]}

CallEvaluate ==
    /\ \E n \in 1..MaxPolicies : \E p \in LifePayloads : Evaluate(n, p)
    /\ UNCHANGED <<tasks, request, ctx>>

Next ==
    \/ CallRolesAny
    \/ CallRolesAll
    \/ CallNeedAny
    \/ CallNeedAll
    \/ CallBuild
    \/ CallEvaluate

Spec == Init /\ [][Next]_vars

----------------------------------------------------------------------------
(* Evaluation of one built policy on arbitrary claims *)

\* the rules a builder call can append
AllRules ==
    {[type |-> t, roles |-> a] :
        t \in {"rolesAny", "rolesAll"}, a \in ArgLists \ {<<>>}}
  \cup
    {[type |-> t, permissions |-> a] :
        t \in {"needAny", "needAll"}, a \in ArgLists \ {<<>>}}

\* the rule arrays a builder can hold
RuleLists == UNION {[1..n -> AllRules] : n \in 0..MaxRules}

InitEval ==
    /\ rules \in RuleLists
    /\ policies = <<build(rules).policy>>
    /\ call = [op |-> "build", args |-> <<>>, policy |-> 1,
               threw |-> FALSE, message |-> "", returned |-> "policy"]
    /\ payload \in Payloads
    /\ result = None
    /\ visited = <<>>
    /\ tasks = NoTasks
    /\ request = NoRequest
    /\ ctx = NoContext

\* the policy is evaluated on the claims at hand
EvaluateAny ==
    /\ result = None
    /\ Evaluate(1, payload)
    /\ UNCHANGED <<tasks, request, ctx>>

NextEval == EvaluateAny

SpecEval == InitEval /\ [][NextEval]_vars

----------------------------------------------------------------------------
(* Evaluate calls side by side on one shared policy *)

Tasks == {"t1", "t2"}

InitConc ==
    /\ rules \in RuleLists
    /\ policies = <<build(rules).policy>>
    /\ call = [op |-> "build", args |-> <<>>, policy |-> 1,
               threw |-> FALSE, message |-> "", returned |-> "policy"]
    /\ payload = NoPayload
    /\ result = None
    /\ visited = <<>>
    /\ tasks \in [Tasks -> {Task("called", 0, p, None) : p \in LifePayloads}]
    /\ request = NoRequest
    /\ ctx = NoContext

\* the call of task t takes its next step
StepTask(t) ==
    /\ tasks[t].pc # "returned"
    /\ LET s == evaluateStep(PolicyRules(1), tasks[t])
       IN  /\ tasks' = [tasks EXCEPT ![t] = s.task]
           /\ IF policies[1].shared
              THEN rules' = s.rules /\ policies' = policies
              ELSE rules' = rules /\ policies' = [policies EXCEPT ![1].arr = s.rules]
    /\ UNCHANGED <<call, payload, result, visited, request, ctx>>

NextConc == \E t \in Tasks : StepTask(t)

SpecConc == InitConc /\ [][NextConc]_vars

----------------------------------------------------------------------------
(* The authGuard middleware.  A header value is a sequence of one-character *)
(* strings, so that trim, split, startsWith and slice work on its text.     *)

IsSpace(ch) == ch = " "

RECURSIVE trimStart(_)
trimStart(str) ==
    IF Len(str) > 0 /\ IsSpace(str[1]) THEN trimStart(Tail(str)) ELSE str

RECURSIVE trimEnd(_)
trimEnd(str) ==
    IF Len(str) > 0 /\ IsSpace(str[Len(str)])
    THEN trimEnd(SubSeq(str, 1, Len(str) - 1))
    ELSE str

\* String.prototype.trim
trim(str) == trimEnd(trimStart(str))

RECURSIVE splitFrom(_, _, _, _)
splitFrom(str, i, part, parts) ==
    IF i > Len(str)
    THEN Append(parts, part)
    ELSE IF IsSpace(str[i])
         THEN IF i > 1 /\ IsSpace(str[i - 1])
              THEN splitFrom(str, i + 1, part, parts)
              ELSE splitFrom(str, i + 1, <<>>, Append(parts, part))
         ELSE splitFrom(str, i + 1, Append(part, str[i]), parts)

\* str.split(/\s+/): the parts between the runs of whitespace
split(str) == splitFrom(str, 1, <<>>, <<>>)

\* String.prototype.startsWith
startsWith(str, prefix) ==
    Len(str) >= Len(prefix) /\ SubSeq(str, 1, Len(prefix)) = prefix

\* str.slice(n)
slice(str, n) == SubSeq(str, n + 1, Len(str))

\* a header of the request: undefined, or a string
Absent == [present |-> FALSE, value |-> <<>>]
Header(str) == [present |-> TRUE, value |-> str]

\* string | null
NullToken == [isNull |-> TRUE, value |-> <<>>]
Token(str) == [isNull |-> FALSE, value |-> str]

Bearer == <<"B", "e", "a", "r", "e", "r">>
Sp == <<" ">>

\* extractBearerToken taking the second part whatever the first part is
extractBearerTokenAnyScheme(authHeader) ==
    IF ~authHeader.present \/ Len(authHeader.value) = 0
    THEN NullToken
    ELSE LET parts == split(trim(authHeader.value))
         IN  IF Len(parts) # 2
             THEN NullToken
             ELSE IF Len(parts[2]) = 0 THEN NullToken ELSE Token(parts[2])

extractBearerToken(authHeader) ==
    IF ~authHeader.present \/ Len(authHeader.value) = 0
    THEN NullToken
    ELSE LET parts == split(trim(authHeader.value))
         IN  IF Len(parts) # 2 \/ parts[1] # Bearer
             THEN NullToken
             ELSE IF Len(parts[2]) = 0 THEN NullToken ELSE Token(parts[2])

extractCfAccessToken(headerValue) ==
    IF ~headerValue.present \/ Len(headerValue.value) = 0
    THEN NullToken
    ELSE LET trimmed == trim(headerValue.value)
         IN  IF Len(trimmed) = 0
             THEN NullToken
             ELSE IF startsWith(trimmed, Bearer \o Sp)
                  THEN LET token == trim(slice(trimmed, 7))
                       IN  IF Len(token) > 0 THEN Token(token) ELSE NullToken
                  ELSE Token(trimmed)

\* the payload of a token that does not verify
NullPayload == [null |-> TRUE]

\* the tokens requests carry
Jwt1 == <<"j", "1">>
Jwt2 == <<"j", "2">>

\* the claims the verifier can find in a token
VerifiedClaims ==
    {[roles |-> Arr(<<"admin">>), permissions |-> Undefined, sub |-> Str("admin")],
     [roles |-> Arr(<<"user">>), permissions |-> Arr(<<"admin">>),
      sub |-> Str("user-123")]}

\* the verifier of the environment: what it returns for each of the two
\* tokens; any other string is no token of its issuer
Verifiers == [j1 : VerifiedClaims \cup {NullPayload}, j2 : VerifiedClaims \cup {NullPayload}]

\* kit.verify(token)
verify(env, token) ==
    IF token = Jwt1 THEN env.j1 ELSE IF token = Jwt2 THEN env.j2 ELSE NullPayload

\* verifyWithConfig(token, config): the configuration holds what the
\* environment holds for kit.verify
verifyWithConfig(token, config) ==
    IF token = Jwt1 THEN config.j1 ELSE IF token = Jwt2 THEN config.j2 ELSE NullPayload

\* c.json(body, status)
json(error, message, status) ==
    [status |-> status, body |-> [error |-> error, message |-> message]]

NoResponse == [status |-> 0]

\* the context of a request the handler has not begun to handle
NewContext ==
    [pc |-> "extract", authToken |-> NullToken, token |-> NullToken,
     verified |-> NullPayload, verifyCalls |-> 0,
     response |-> NoResponse, auth |-> Undefined, nextCalled |-> FALSE]

\* the handler returns the response
respond(c, response) == [c EXCEPT !.response = response, !.pc = "responded"]

\* authGuard looking at the CF-Access-Jwt-Assertion header first
authGuardExtractCfFirst(req, c) ==
    LET authToken == extractBearerToken(req.authorization)
        cfToken == extractCfAccessToken(req.cfAccess)
        token == IF ~cfToken.isNull THEN cfToken ELSE authToken
        extracted == [c EXCEPT !.authToken = authToken, !.token = token]
    IN  IF token.isNull
        THEN respond(extracted,
                     json("unauthorized",
                          "Missing or invalid Authorization or CF-Access-Jwt-Assertion header",
                          401))
        ELSE [extracted EXCEPT !.pc = "verify"]

\* authGuard up to its await: the token of the headers, or the 401 for none
authGuardExtract(req, c) ==
    LET authToken == extractBearerToken(req.authorization)
        token == IF ~authToken.isNull
                 THEN authToken
                 ELSE extractCfAccessToken(req.cfAccess)
        extracted == [c EXCEPT !.authToken = authToken, !.token = token]
    IN  IF token.isNull
        THEN respond(extracted,
                     json("unauthorized",
                          "Missing or invalid Authorization or CF-Access-Jwt-Assertion header",
                          401))
        ELSE [extracted EXCEPT !.pc = "verify"]

\* authGuard answering a token that does not verify with the 403
authGuardVerifyForbidding(req, c) ==
    LET verified == verify(req.env, c.token.value)
        called == [c EXCEPT !.verified = verified, !.verifyCalls = @ + 1]
    IN  IF verified = NullPayload
        THEN respond(called, json("forbidden", "Insufficient permissions", 403))
        ELSE [called EXCEPT !.pc = "authorize"]

\* authGuard verifying the token of the other header when the first fails
authGuardVerifyFallingBack(req, c) ==
    LET first == verify(req.env, c.token.value)
        cfToken == extractCfAccessToken(req.cfAccess)
        again == first = NullPayload /\ ~cfToken.isNull
        verified == IF again THEN verify(req.env, cfToken.value) ELSE first
        called == [c EXCEPT !.verified = verified,
                            !.verifyCalls = IF again THEN @ + 2 ELSE @ + 1]
    IN  IF verified = NullPayload
        THEN respond(called, json("unauthorized", "Invalid or expired token", 401))
        ELSE [called EXCEPT !.pc = "authorize"]

\* authGuard setting auth as soon as the token has verified
authGuardVerifySettingAuth(req, c) ==
    LET verified == verify(req.env, c.token.value)
        called == [c EXCEPT !.verified = verified, !.verifyCalls = @ + 1]
    IN  IF verified = NullPayload
        THEN respond(called, json("unauthorized", "Invalid or expired token", 401))
        ELSE [called EXCEPT !.auth = verified, !.pc = "authorize"]

\* authGuard once kit.verify has settled
authGuardVerify(req, c) ==
    LET verified == verify(req.env, c.token.value)
        called == [c EXCEPT !.verified = verified, !.verifyCalls = @ + 1]
    IN  IF verified = NullPayload
        THEN respond(called, json("unauthorized", "Invalid or expired token", 401))
        ELSE [called EXCEPT !.pc = "authorize"]

\* authGuard going on whatever policy.evaluate returned
authGuardAuthorizeIgnoringResult(c, r) == [c EXCEPT !.pc = "set"]

\* authGuard putting the reason of the failure in the body of the 403
authGuardAuthorizeLeakingReason(c, r) ==
    IF ~r.success
    THEN respond(c, json("forbidden", r.reason, 403))
    ELSE [c EXCEPT !.pc = "set"]

\* authGuard after policy.evaluate returned r
authGuardAuthorize(c, r) ==
    IF ~r.success
    THEN respond(c, json("forbidden", "Insufficient permissions", 403))
    ELSE [c EXCEPT !.pc = "set"]

\* authGuardWithConfig up to its await
authGuardWithConfigExtract(req, c) ==
    LET authToken == extractBearerToken(req.authorization)
        token == IF ~authToken.isNull
                 THEN authToken
                 ELSE extractCfAccessToken(req.cfAccess)
        extracted == [c EXCEPT !.authToken = authToken, !.token = token]
    IN  IF token.isNull
        THEN respond(extracted,
                     json("unauthorized",
                          "Missing or invalid Authorization or CF-Access-Jwt-Assertion header",
                          401))
        ELSE [extracted EXCEPT !.pc = "verify"]

\* authGuardWithConfig once verifyWithConfig has settled
authGuardWithConfigVerify(req, c) ==
    LET verified == verifyWithConfig(c.token.value, req.env)
        called == [c EXCEPT !.verified = verified, !.verifyCalls = @ + 1]
    IN  IF verified = NullPayload
        THEN respond(called, json("unauthorized", "Invalid or expired token", 401))
        ELSE [called EXCEPT !.pc = "authorize"]

\* authGuardWithConfig after policy.evaluate returned r
authGuardWithConfigAuthorize(c, r) ==
    IF ~r.success
    THEN respond(c, json("forbidden", "Insufficient permissions", 403))
    ELSE [c EXCEPT !.pc = "set"]

\* the two guard factories
Guards == {"authGuard", "authGuardWithConfig"}

\* the rule arrays of the policies handed to authGuard
GuardRuleLists ==
    {<<>>,
     <<[type |-> "rolesAny", roles |-> <<"admin">>]>>,
     <<[type |-> "rolesAll", roles |-> <<"admin", "user">>]>>,
     <<[type |-> "needAll", permissions |-> <<"admin">>]>>,
     <<[type |-> "rolesAny", roles |-> <<"admin", "user">>],
       [type |-> "needAny", permissions |-> <<"admin">>]>>}

AuthorizationValues ==
    {Absent, Header(<<>>), Header(Sp), Header(Bearer), Header(Bearer \o Sp),
     Header(Bearer \o Sp \o Jwt1), Header(Bearer \o Sp \o Jwt2),
     Header(Sp \o Bearer \o Sp \o Sp \o Jwt1 \o Sp),
     Header(<<"B", "a", "s", "i", "c">> \o Sp \o Jwt1),
     Header(<<"b", "e", "a", "r", "e", "r">> \o Sp \o Jwt1),
     Header(Jwt1),
     Header(Bearer \o Sp \o Jwt1 \o Sp \o Jwt2)}

CfAccessValues ==
    {Absent, Header(<<>>), Header(Sp), Header(Jwt1), Header(Jwt2),
     Header(Sp \o Jwt2 \o Sp), Header(Bearer \o Sp \o Jwt1),
     Header(Bearer \o Sp \o Sp \o Jwt2 \o Sp), Header(Bearer \o Sp)}

\* a request arrives at a route guarded by authGuard() or authGuard(policy),
\* or by authGuardWithConfig(config) or authGuardWithConfig(config, policy)
InitGuard ==
    /\ \/ rules = <<>> /\ policies = <<>> /\ call = NoCall
       \/ /\ rules \in GuardRuleLists
          /\ policies = <<build(rules).policy>>
          /\ call = [op |-> "build", args |-> <<>>, policy |-> 1,
                     threw |-> FALSE, message |-> "", returned |-> "policy"]
    /\ payload = NoPayload
    /\ result = None
    /\ visited = <<>>
    /\ tasks = NoTasks
    /\ request \in [authorization : AuthorizationValues, cfAccess : CfAccessValues,
                    env : Verifiers, policy : {Len(policies)}, guard : Guards]
    /\ ctx = NewContext

GuardExtract ==
    /\ ctx.pc = "extract"
    /\ ctx' = IF request.guard = "authGuard"
              THEN authGuardExtract(request, ctx)
              ELSE authGuardWithConfigExtract(request, ctx)
    /\ UNCHANGED <<rules, policies, call, payload, result, visited, tasks, request>>

GuardVerify ==
    /\ ctx.pc = "verify"
    /\ ctx' = IF request.guard = "authGuard"
              THEN authGuardVerify(request, ctx)
              ELSE authGuardWithConfigVerify(request, ctx)
    /\ UNCHANGED <<rules, policies, call, payload, result, visited, tasks, request>>

GuardAuthorize ==
    /\ ctx.pc = "authorize"
    /\ IF request.policy # 0
       THEN /\ Evaluate(request.policy, ctx.verified)
            /\ ctx' = IF request.guard = "authGuard"
                      THEN authGuardAuthorize(ctx, result')
                      ELSE authGuardWithConfigAuthorize(ctx, result')
       ELSE /\ ctx' = [ctx EXCEPT !.pc = "set"]
            /\ UNCHANGED <<rules, policies, call, payload, result, visited>>
    /\ UNCHANGED <<tasks, request>>

\* c.set('auth', payload)
GuardSetAuth ==
    /\ ctx.pc = "set"
    /\ ctx' = [ctx EXCEPT !.auth = ctx.verified, !.pc = "next"]
    /\ UNCHANGED <<rules, policies, call, payload, result, visited, tasks, request>>

\* return next()
GuardNext ==
    /\ ctx.pc = "next"
    /\ ctx' = [ctx EXCEPT !.nextCalled = TRUE, !.pc = "handler"]
    /\ UNCHANGED <<rules, policies, call, payload, result, visited, tasks, request>>

NextGuard ==
    \/ GuardExtract
    \/ GuardVerify
    \/ GuardAuthorize
    \/ GuardSetAuth
    \/ GuardNext

SpecGuard == InitGuard /\ [][NextGuard]_vars

----------------------------------------------------------------------------
(* Properties of evaluate, checked under SpecEval *)

\* an evaluate call has returned
Evaluated == call.op = "evaluate"

\* the rules of the policy that was evaluated
P == PolicyRules(call.policy)

\* rule i of the evaluated policy, on its own, passes against the payload
Passes(i) == evaluateRule(P[i], payload).success

\* the identifier lists of a rule and of a claim field, as sets
Required(rule) ==
    IF rule.type \in {"rolesAny", "rolesAll"}
    THEN {rule.roles[k] : k \in 1..Len(rule.roles)}
    ELSE {rule.permissions[k] : k \in 1..Len(rule.permissions)}

Held(v) == {v.arr[k] : k \in 1..Len(v.arr)}

NonEmptyArray(v) == v.tag = "array" /\ Len(v.arr) > 0

\* C1: evaluate returns Success if and only if every rule of the policy
\* passes on its own against the claims (the rules are AND-combined), and a
\* Failure with a reason otherwise.
C1_AndCombined ==
    Evaluated =>
        /\ result.success <=> \A i \in 1..Len(P) : Passes(i)
        /\ ~result.success => DOMAIN result = {"success", "reason"}

\* a two-rule policy whose first rule passes and whose second fails
C1_Witness ==
    /\ Evaluated
    /\ Len(P) = 2
    /\ Passes(1)
    /\ ~Passes(2)
    /\ ~result.success

\* C2: when evaluation fails, the reported Failure is that of the failing
\* rule with the smallest index, and evaluate looked at rules 1..i only.
C2_FirstFailureReported ==
    (Evaluated /\ ~result.success) =>
        \E i \in 1..Len(P) :
            /\ ~Passes(i)
            /\ \A j \in 1..(i - 1) : Passes(j)
            /\ result = evaluateRule(P[i], payload)
            /\ visited = [k \in 1..i |-> k]

\* two failing rules with different reasons: the first one's is reported
C2_Witness ==
    /\ Evaluated
    /\ Len(P) = 2
    /\ ~Passes(1)
    /\ ~Passes(2)
    /\ evaluateRule(P[1], payload).reason # evaluateRule(P[2], payload).reason
    /\ result.reason = evaluateRule(P[1], payload).reason
    /\ visited = <<1>>

\* C3: a policy with zero rules evaluates to Success on every claims object,
\* whether roles and permissions are absent, empty, non-array or populated.
C3_EmptyPolicySucceeds ==
    (Evaluated /\ Len(P) = 0) => result = Success

\* the empty policy evaluated on claims with a non-array roles field and an
\* empty permissions array
C3_Witness ==
    /\ Evaluated
    /\ Len(P) = 0
    /\ payload.roles.tag = "string"
    /\ payload.permissions = Arr(<<>>)
    /\ result = Success

\* C4: a rolesAny(required) rule passes if and only if claims.roles is a
\* non-empty array and some required identifier is an element of it, by
\* exact string equality (no case folding, no trimming).
C4_RolesAnyIff ==
    (Evaluated /\ Len(P) = 1 /\ P[1].type = "rolesAny") =>
        (result.success <=>
            /\ NonEmptyArray(payload.roles)
            /\ Required(P[1]) \cap Held(payload.roles) # {})

\* rolesAny with "admin" among the required identifiers fails on the roles
\* array ["Admin"]
C4_Witness ==
    /\ Evaluated
    /\ Len(P) = 1
    /\ P[1].type = "rolesAny"
    /\ "admin" \in Required(P[1])
    /\ payload.roles = Arr(<<"Admin">>)
    /\ ~result.success

\* C5: a rolesAll(required) rule passes if and only if claims.roles is a
\* non-empty array and every required identifier is an element of it; roles
\* beyond the required ones never make it fail.
C5_RolesAllIff ==
    (Evaluated /\ Len(P) = 1 /\ P[1].type = "rolesAll") =>
        (result.success <=>
            /\ NonEmptyArray(payload.roles)
            /\ Required(P[1]) \subseteq Held(payload.roles))

\* rolesAll passes on a roles array that holds more than the required roles
C5_Witness ==
    /\ Evaluated
    /\ Len(P) = 1
    /\ P[1].type = "rolesAll"
    /\ NonEmptyArray(payload.roles)
    /\ Held(payload.roles) \ Required(P[1]) # {}
    /\ result.success

\* the claims obtained by moving the permissions field into the roles field
Moved(p) == [p EXCEPT !.roles = p.permissions, !.permissions = Undefined]

\* C6: needAny / needAll on claims C succeed exactly when rolesAny / rolesAll
\* with the same identifiers succeed on C with permissions moved into roles,
\* and the failure reason is the same string with "permissions" for "roles".
C6_NeedMirrorsRoles ==
    (Evaluated /\ Len(P) = 1 /\ P[1].type \in {"needAny", "needAll"}) =>
        LET L == P[1].permissions
            twin == IF P[1].type = "needAny"
                    THEN evaluateRolesAny(L, Moved(payload))
                    ELSE evaluateRolesAll(L, Moved(payload))
            tails == {": at least one of [" \o Join(L, ", ") \o "]",
                      ": all of [" \o Join(L, ", ") \o "]"}
        IN  /\ result.success = twin.success
            /\ ~result.success =>
                  \E tail \in tails :
                      /\ twin.reason = "Missing required roles" \o tail
                      /\ result.reason = "Missing required permissions" \o tail

\* needAll fails on claims whose roles field would satisfy it but whose
\* permissions field does not
C6_Witness ==
    /\ Evaluated
    /\ Len(P) = 1
    /\ P[1].type = "needAll"
    /\ NonEmptyArray(payload.roles)
    /\ Required(P[1]) \subseteq Held(payload.roles)
    /\ NonEmptyArray(payload.permissions)
    /\ ~result.success

WithRoles(p, v) == [p EXCEPT !.roles = v]
WithPermissions(p, v) == [p EXCEPT !.permissions = v]

\* C7: a policy gives the same PolicyResult on claims with the roles field
\* absent as on the same claims with roles = [], and likewise for the
\* permissions field; every rolesAny / rolesAll rule fails in both cases.
C7_AbsentEqualsEmpty ==
    Evaluated =>
        /\ payload.roles \in {Undefined, Arr(<<>>)} =>
              /\ result = evaluate(P, WithRoles(payload, Undefined)).result
              /\ result = evaluate(P, WithRoles(payload, Arr(<<>>))).result
              /\ \A i \in 1..Len(P) :
                    P[i].type \in {"rolesAny", "rolesAll"} =>
                        /\ ~evaluateRule(P[i], WithRoles(payload, Undefined)).success
                        /\ ~evaluateRule(P[i], WithRoles(payload, Arr(<<>>))).success
        /\ payload.permissions \in {Undefined, Arr(<<>>)} =>
              /\ result = evaluate(P, WithPermissions(payload, Undefined)).result
              /\ result = evaluate(P, WithPermissions(payload, Arr(<<>>))).result

\* a policy with a roles rule evaluated on claims without a roles field
C7_Witness ==
    /\ Evaluated
    /\ payload.roles = Undefined
    /\ \E i \in 1..Len(P) : P[i].type = "rolesAny"
    /\ ~result.success

\* a claim field that is present but holds no array
NonArray(v) == v.tag \notin {"array", "undefined"}

\* C8: when claims.roles or claims.permissions is present but not an array,
\* evaluate returns the PolicyResult it returns for the missing field: it
\* does not throw and does not match the value against the identifiers, so
\* every rule over that field fails.
C8_NonArrayEqualsMissing ==
    Evaluated =>
        /\ result.success \in BOOLEAN
        /\ NonArray(payload.roles) =>
              /\ result = evaluate(P, WithRoles(payload, Undefined)).result
              /\ \A i \in 1..Len(P) :
                    P[i].type \in {"rolesAny", "rolesAll"} =>
                        /\ ~Passes(i)
                        /\ evaluateRule(P[i], payload)
                              = evaluateRule(P[i], WithRoles(payload, Undefined))
        /\ NonArray(payload.permissions) =>
              /\ result = evaluate(P, WithPermissions(payload, Undefined)).result
              /\ \A i \in 1..Len(P) :
                    P[i].type \in {"needAny", "needAll"} =>
                        /\ ~Passes(i)
                        /\ evaluateRule(P[i], payload)
                              = evaluateRule(P[i], WithPermissions(payload, Undefined))

\* needAny with "admin" required, on claims whose permissions field is the
\* bare string "admin"
C8_Witness ==
    /\ Evaluated
    /\ Len(P) = 1
    /\ P[1].type = "needAny"
    /\ "admin" \in Required(P[1])
    /\ payload.permissions = Str("admin")
    /\ ~result.success

\* the text of an identifier list in a reason
ListText(l) ==
    CASE l = <<"admin">> -> "admin"
      [] l = <<"admin", "user">> -> "admin, user"
      [] l = <<"admin", "user", "guest">> -> "admin, user, guest"

\* the reason of a failing rule
ReasonText(rule) ==
    "Missing required "
        \o (IF rule.type \in {"rolesAny", "rolesAll"} THEN "roles" ELSE "permissions")
        \o ": "
        \o (IF rule.type \in {"rolesAny", "needAny"} THEN "at least one of" ELSE "all of")
        \o " ["
        \o ListText(IF rule.type \in {"rolesAny", "rolesAll"}
                    THEN rule.roles ELSE rule.permissions)
        \o "]"

\* C17: the reason of a failing rule names the requirement class ("roles" or
\* "permissions", "at least one of" or "all of") and all the required
\* identifiers in builder order joined by ", ", whatever the claims are
\* (field absent, empty, non-array or without a match).
C17_ReasonFormat ==
    (Evaluated /\ ~result.success) =>
        result.reason = ReasonText(P[visited[Len(visited)]])

\* rolesAll("admin", "user") fails on roles ["admin"]: the reason lists both
C17_Witness ==
    /\ Evaluated
    /\ Len(P) = 1
    /\ P[1] = [type |-> "rolesAll", roles |-> <<"admin", "user">>]
    /\ payload.roles = Arr(<<"admin">>)
    /\ result = Failure("Missing required roles: all of [admin, user]")

\* C18: the result of evaluate depends on the roles and permissions fields
\* only: claims that differ in another field (the subject) get the same
\* PolicyResult.
C18_OtherClaimsIgnored ==
    Evaluated =>
        \A s \in SubValues : evaluate(P, [payload EXCEPT !.sub = s]).result = result

\* a rolesAny rule requiring "admin" fails for the subject "admin" whose roles
\* do not include it
C18_Witness ==
    /\ Evaluated
    /\ Len(P) = 1
    /\ P[1].type = "rolesAny"
    /\ "admin" \in Required(P[1])
    /\ payload.sub = Str("admin")
    /\ payload.roles = Arr(<<"user">>)
    /\ ~result.success

\* the rule arrays holding the rules of rs in some order
Reordered(rs) == {[k \in 1..Len(rs) |-> rs[f[k]]] : f \in Permutations(1..Len(rs))}

\* C27: whether evaluate succeeds does not depend on the order of the rules:
\* a policy of the same rules in another order succeeds on the same claims or
\* fails on them, as this one does.
C27_OrderIndependent ==
    Evaluated =>
        \A q \in Reordered(P) : evaluate(q, payload).result.success = result.success

\* two rules fail on the claims, and the policy of the two in the other order
\* fails with the other reason
C27_Witness ==
    /\ Evaluated
    /\ Len(P) = 2
    /\ ~result.success
    /\ ~evaluate(<<P[2], P[1]>>, payload).result.success
    /\ evaluate(<<P[2], P[1]>>, payload).result # result

\* the rules appended to a policy: a rule of each kind, and two in a row
Extensions ==
    {<<[type |-> "rolesAny", roles |-> <<"admin">>]>>,
     <<[type |-> "rolesAll", roles |-> <<"admin", "user">>]>>,
     <<[type |-> "needAny", permissions |-> <<"admin">>]>>,
     <<[type |-> "needAll", permissions |-> <<"admin", "user">>]>>,
     <<[type |-> "rolesAny", roles |-> <<"admin", "user">>],
       [type |-> "needAny", permissions |-> <<"admin">>]>>}

\* C28: when a policy fails on claims, every policy of the same rules
\* followed by further rules fails on them with the same reason.
C28_AppendOnlyRestricts ==
    (Evaluated /\ ~result.success) =>
        \A ext \in Extensions : evaluate(P \o ext, payload).result = result

\* a policy fails on claims that pass a rule appended to it
C28_Witness ==
    /\ Evaluated
    /\ Len(P) >= 1
    /\ ~result.success
    /\ \E ext \in Extensions : evaluate(ext, payload).result.success

\* identifiers granted on top of those held: one that rules require and one
\* that none requires
Granted == {"user", "other"}

\* a claim field with at most one more identifier after those held
More(v) ==
    CASE IsArray(v) -> {v} \cup {Arr(Append(v.arr, x)) : x \in Granted}
      [] v = Undefined -> {v} \cup {Arr(<<x>>) : x \in Granted}
      [] OTHER -> {v}

\* C29: when a policy succeeds on claims, it succeeds on claims whose roles
\* and permissions hold all the identifiers of the first and more.
C29_MoreIdentifiersKeepAccess ==
    (Evaluated /\ result.success) =>
        \A r \in More(payload.roles) : \A q \in More(payload.permissions) :
            evaluate(P, [payload EXCEPT !.roles = r, !.permissions = q]).result.success

\* a rolesAll rule passed on exactly the roles it requires
C29_Witness ==
    /\ Evaluated
    /\ Len(P) >= 1
    /\ P[1] = [type |-> "rolesAll", roles |-> <<"admin", "user">>]
    /\ payload.roles = Arr(<<"admin", "user">>)
    /\ result.success

----------------------------------------------------------------------------
(* Properties of the builder, checked under Spec *)

AppendOps == {"rolesAny", "rolesAll", "needAny", "needAll"}

\* the most recent call was an append method called with zero arguments
ZeroArgCall(c) == c.op \in AppendOps /\ Len(c.args) = 0

\* C9: rolesAny, rolesAll, needAny and needAll called with zero arguments,
\* in any builder state, throw "<method> requires at least one role" (role
\* methods) or "<method> requires at least one permission" (permission
\* methods) and return no builder.
C9_ZeroArgsThrow ==
    ZeroArgCall(call) =>
        /\ call.threw
        /\ call.returned = "none"
        /\ call.message =
              call.op \o " requires at least one "
                      \o (IF call.op \in {"rolesAny", "rolesAll"}
                          THEN "role" ELSE "permission")

\* needAll() called on a builder that already holds a rule
C9_Witness ==
    /\ call.op = "needAll"
    /\ Len(call.args) = 0
    /\ Len(rules) > 0
    /\ call.threw

\* C10: a zero-argument append call leaves the builder's rule list (and every
\* built policy) unchanged, and a build() right after it yields a policy
\* holding exactly the rules the builder held before the failed call.
C10_FailedCallChangesNothing ==
    [][ /\ ZeroArgCall(call') => (rules' = rules /\ policies' = policies)
        /\ (ZeroArgCall(call) /\ call'.op = "build") =>
              (rules' = rules /\ RulesOf(policies'[Len(policies')], rules') = rules)
      ]_vars

\* rolesAny() has thrown on a builder that holds a rule
C10_Witness ==
    /\ call.op = "rolesAny"
    /\ call.threw
    /\ Len(rules) > 0

\* the rules of the n-th built policy after a step
PolicyRulesAfter(n) == RulesOf(policies'[n], rules')

\* the rule a successful append call adds
RuleOfCall(c) ==
    IF c.op \in {"rolesAny", "rolesAll"}
    THEN [type |-> c.op, roles |-> c.args]
    ELSE [type |-> c.op, permissions |-> c.args]

\* the identifier list of a rule
Identifiers(rule) ==
    IF rule.type \in {"rolesAny", "rolesAll"} THEN rule.roles ELSE rule.permissions

\* C11: once a policy is built, no append call on the builder changes it:
\* it holds the same rules and evaluates to the same result on every claims
\* object before and after the call.
C11_BuiltPolicyUnaffected ==
    [][ call'.op \in AppendOps =>
            \A n \in 1..Len(policies) :
                /\ n <= Len(policies')
                /\ PolicyRulesAfter(n) = PolicyRules(n)
                /\ \A c \in LifePayloads :
                      evaluate(PolicyRulesAfter(n), c).result
                          = evaluate(PolicyRules(n), c).result
      ]_vars

\* a rule has been appended after the first policy was built
C11_Witness ==
    /\ Len(policies) >= 1
    /\ call.op \in AppendOps
    /\ ~call.threw
    /\ Len(PolicyRules(1)) < Len(rules)

\* C12: build() leaves the builder's rules as they are and returns one more
\* policy holding exactly the builder's rules: the same rules as the policy
\* before it when no append came in between, and the appended rule as its
\* last when an append came right before.
C12_BuildLeavesBuilder ==
    [][ call'.op = "build" =>
            /\ rules' = rules
            /\ Len(policies') = Len(policies) + 1
            /\ PolicyRulesAfter(Len(policies')) = rules
            /\ call.op = "build" =>
                  PolicyRulesAfter(Len(policies')) = PolicyRules(Len(policies))
            /\ (call.op \in AppendOps /\ ~call.threw) =>
                  LET new == PolicyRulesAfter(Len(policies'))
                  IN  new[Len(new)] = RuleOfCall(call)
      ]_vars

\* two policies built one right after the other from a builder with rules
C12_Witness ==
    /\ call.op = "build"
    /\ Len(policies) = 2
    /\ Len(rules) > 0
    /\ PolicyRules(1) = PolicyRules(2)
    /\ PolicyRules(2) = rules

\* C13: a successful append call adds its rule (its kind, its identifiers in
\* argument order) at the end of the builder's list and every other call
\* leaves the list as it is, so earlier rules are never removed, replaced or
\* reordered; build() hands the list to the policy in that order.
C13_AppendOnlyInOrder ==
    [][ /\ IF call'.op \in AppendOps /\ ~call'.threw
           THEN rules' = Append(rules, RuleOfCall(call'))
           ELSE rules' = rules
        /\ call'.op = "build" => PolicyRulesAfter(Len(policies')) = rules'
      ]_vars

\* needAny(...) then rolesAll("admin", "user"): two rules in call order
C13_Witness ==
    /\ Len(rules) = 2
    /\ rules[1].type = "needAny"
    /\ rules[2] = [type |-> "rolesAll", roles |-> <<"admin", "user">>]
    /\ call.op = "rolesAll"
    /\ ~call.threw

\* C14: every rule of the builder and of every built policy carries at least
\* one identifier, whatever calls were made, failed ones included.
C14_RulesNonEmpty ==
    /\ \A k \in 1..Len(rules) : Len(Identifiers(rules[k])) >= 1
    /\ \A n \in 1..Len(policies) :
          \A k \in 1..Len(PolicyRules(n)) : Len(Identifiers(PolicyRules(n)[k])) >= 1

\* a zero-argument call has failed on a builder that holds a rule and has
\* built a policy with a rule
C14_Witness ==
    /\ ZeroArgCall(call)
    /\ Len(rules) >= 1
    /\ Len(policies) >= 1
    /\ Len(PolicyRules(1)) >= 1

\* C15: evaluate changes neither the rules of any policy, nor the builder,
\* nor the payload it is given, and evaluating again in the state it leaves
\* returns the same PolicyResult, whatever was evaluated in between.
C15_EvaluateIsPure ==
    [][ call'.op = "evaluate" =>
            /\ rules' = rules
            /\ Len(policies') = Len(policies)
            /\ \A n \in 1..Len(policies) : PolicyRulesAfter(n) = PolicyRules(n)
            /\ payload' = call'.args[1]
            /\ result' = evaluate(PolicyRulesAfter(call'.policy), payload').result
            /\ (call.op = "evaluate" /\ call.policy = call'.policy
                    /\ call.args = call'.args) => result' = result
      ]_vars

\* a policy with rules has been evaluated on claims with an unsorted roles
\* array
C15_Witness ==
    /\ call.op = "evaluate"
    /\ Len(PolicyRules(call.policy)) >= 1
    /\ payload = call.args[1]
    /\ payload.roles = Arr(<<"user", "admin">>)

\* C19: each append method returns a new PolicyBuilder and leaves the builder
\* it was called on unchanged, so that the builder then builds a Policy
\* without the rule of the call.
C19_AppendReturnsNewBuilder ==
    [][ (call'.op \in AppendOps /\ ~call'.threw) =>
            /\ call'.returned = "new"
            /\ rules' = rules
            /\ build(rules').policy = build(rules).policy
      ]_vars

----------------------------------------------------------------------------
(* Properties of concurrent evaluation, checked under SpecConc *)

\* C16: evaluate calls interleaved on one shared Policy each return what the
\* same call returns when it runs alone, and the rules of the Policy are in
\* every state the rules it was built with.
C16_ConcurrentEvaluateSafe ==
    /\ PolicyRules(1) = rules
    /\ \A t \in DOMAIN tasks :
            tasks[t].pc = "returned" =>
                tasks[t].result = evaluate(rules, tasks[t].payload).result

\* one call has returned a Failure while the other, on other claims, is in the
\* middle of its loop over the same two rules
C16_Witness ==
    /\ DOMAIN tasks = Tasks
    /\ Len(PolicyRules(1)) = 2
    /\ tasks["t1"].pc = "returned"
    /\ ~tasks["t1"].result.success
    /\ tasks["t2"].pc = "loop"
    /\ tasks["t2"].i = 2
    /\ tasks["t2"].payload # tasks["t1"].payload

----------------------------------------------------------------------------
(* Properties of authGuard, checked under SpecGuard *)

\* the handler has returned
Handled == ctx.pc \in {"responded", "handler"}

\* the headers gave a token and the verifier returned claims for it
Verified == ~ctx.token.isNull /\ verify(request.env, ctx.token.value) # NullPayload

\* C20: when no token can be extracted or the verifier returns null for it,
\* the response is 401 with error "unauthorized"; when the token verifies and
\* the supplied policy fails on its claims, the response is 403 with the body
\* {error: "forbidden", message: "Insufficient permissions"}; a verified token
\* never gets 401 and an unverified one never gets 403.
C20_GuardResponses ==
    Handled =>
        /\ ~Verified =>
                /\ ctx.response.status = 401
                /\ ctx.response.body.error = "unauthorized"
        /\ ( /\ Verified
             /\ request.policy # 0
             /\ ~evaluate(PolicyRules(1), verify(request.env, ctx.token.value)).result.success
           ) => ctx.response =
                    [status |-> 403,
                     body |-> [error |-> "forbidden",
                               message |-> "Insufficient permissions"]]
        /\ Verified => ctx.response.status # 401
        /\ ~Verified => ctx.response.status # 403

\* a Bearer token verified, the policy failed on its claims, and the request
\* got the 403
C20_Witness ==
    /\ ctx.pc = "responded"
    /\ request.authorization = Header(Bearer \o Sp \o Jwt1)
    /\ ctx.verified \in VerifiedClaims
    /\ request.policy = 1
    /\ ~result.success
    /\ ctx.response.status = 403

\* the place of a position of the handler in the order of its steps
Rank(pc) ==
    CASE pc = "extract" -> 1
      [] pc = "verify" -> 2
      [] pc = "authorize" -> 3
      [] pc = "set" -> 4
      [] pc = "next" -> 5
      [] pc \in {"handler", "responded"} -> 6

\* C21: the guards step forward in the order extract, verify, evaluate, set
\* auth, next; the policy is evaluated only on the non-null payload the
\* verifier returned for the extracted token; and next is called only after a
\* token was extracted, verified, passed by the policy when there is one, and
\* stored in auth.
C21_GuardOrder ==
    [][ /\ Rank(ctx'.pc) > Rank(ctx.pc)
        /\ (call'.op = "evaluate" /\ call.op # "evaluate") =>
                /\ ctx.pc = "authorize"
                /\ ~ctx.token.isNull
                /\ ctx.verifyCalls = 1
                /\ payload' # NullPayload
                /\ payload' = verify(request.env, ctx.token.value)
        /\ (ctx'.nextCalled /\ ~ctx.nextCalled) =>
                /\ ctx.pc = "next"
                /\ ~ctx.token.isNull
                /\ ctx.auth # NullPayload
                /\ ctx.auth = verify(request.env, ctx.token.value)
                /\ ctx'.auth = ctx.auth
                /\ request.policy # 0 =>
                        /\ call.op = "evaluate"
                        /\ payload = ctx.auth
                        /\ result.success
                        /\ evaluate(PolicyRules(1), ctx.auth).result.success
      ]_vars

\* authGuardWithConfig called next for a request whose token passed a policy
\* with rules
C21_Witness ==
    /\ ctx.nextCalled
    /\ request.guard = "authGuardWithConfig"
    /\ request.policy = 1
    /\ Len(PolicyRules(1)) >= 1
    /\ call.op = "evaluate"
    /\ ctx.auth = payload

\* C22: every 403 of the guards is the same response, whichever policy failed
\* on whichever payload: its body holds the fixed message, never the reason
\* of the failure.
C22_ForbiddenIsGeneric ==
    (ctx # NoContext /\ ctx.response.status = 403) =>
        /\ ~result.success
        /\ ctx.response.body.message # result.reason
        /\ ctx.response =
                [status |-> 403,
                 body |-> [error |-> "forbidden",
                           message |-> "Insufficient permissions"]]

\* the second rule of a policy failed for want of a permission, and the
\* request got the 403
C22_Witness ==
    /\ ctx.response.status = 403
    /\ Len(PolicyRules(1)) = 2
    /\ result = Failure("Missing required permissions: at least one of [admin]")

AllSpaces(str) == \A i \in 1..Len(str) : str[i] = " "
NoSpace(str) == \A i \in 1..Len(str) : str[i] # " "

\* the tokens t for which the text is whitespace, "Bearer", whitespace, t,
\* whitespace, the first and the last possibly empty
BearerTokens(str) ==
    LET n == Len(str)
        starts == {i \in 0..n :
                    /\ i + 6 <= n
                    /\ AllSpaces(SubSeq(str, 1, i))
                    /\ SubSeq(str, i + 1, i + 6) = <<"B", "e", "a", "r", "e", "r">>}
        gaps(i) == {j \in (i + 7)..n : AllSpaces(SubSeq(str, i + 7, j))}
        ends(j) == {k \in (j + 1)..n :
                    /\ NoSpace(SubSeq(str, j + 1, k))
                    /\ AllSpaces(SubSeq(str, k + 1, n))}
    IN  UNION {UNION {{SubSeq(str, j + 1, k) : k \in ends(j)} : j \in gaps(i)} : i \in starts}

\* the Bearer tokens of a header
BearerTokensOf(h) == IF h.present THEN BearerTokens(h.value) ELSE {}

\* a header missing, empty or of whitespace only
Blank(h) == ~h.present \/ AllSpaces(h.value)

\* the token of each non-blank CF-Access-Jwt-Assertion header of the model
CfTokenOf(h) ==
    CASE h \in {Header(Jwt1), Header(Bearer \o Sp \o Jwt1)} -> Jwt1
      [] h \in {Header(Jwt2), Header(Sp \o Jwt2 \o Sp),
                Header(Bearer \o Sp \o Sp \o Jwt2 \o Sp)} -> Jwt2
      [] h = Header(Bearer \o Sp) -> Bearer

\* C23: when the Authorization header yields a Bearer token, that token is
\* the one verified whatever the CF-Access-Jwt-Assertion header holds; when
\* it yields none, the token of a non-blank CF-Access-Jwt-Assertion header is
\* verified; when neither yields a token the response is 401.
C23_HeaderPrecedence ==
    (ctx # NoContext /\ ctx.pc # "extract") =>
        LET bearer == BearerTokensOf(request.authorization) IN
        /\ bearer # {} =>
                /\ ~ctx.token.isNull
                /\ ctx.token.value \in bearer
        /\ (bearer = {} /\ ~Blank(request.cfAccess)) =>
                /\ ~ctx.token.isNull
                /\ ctx.token.value = CfTokenOf(request.cfAccess)
        /\ (bearer = {} /\ Blank(request.cfAccess)) =>
                /\ ctx.token.isNull
                /\ ctx.pc = "responded"
                /\ ctx.response.status = 401
                /\ ctx.verifyCalls = 0
        /\ ctx.verifyCalls > 0 =>
                ctx.verified = verify(request.env, ctx.token.value)

\* both headers hold a token the verifier knows, with different claims, and
\* the claims of the Authorization header's token were the verified ones
C23_Witness ==
    /\ request.authorization = Header(Bearer \o Sp \o Jwt1)
    /\ request.cfAccess = Header(Jwt2)
    /\ request.env.j1 \in VerifiedClaims
    /\ request.env.j2 \in VerifiedClaims
    /\ request.env.j1 # request.env.j2
    /\ ctx.verifyCalls = 1
    /\ ctx.verified = request.env.j1

\* C24: an Authorization header yields a token exactly when its text is
\* "Bearer", whitespace and one further part, with whitespace allowed around
\* them; the token is that part.  Every other header yields none.
C24_BearerForm ==
    (ctx # NoContext /\ ctx.pc # "extract") =>
        LET bearer == BearerTokensOf(request.authorization) IN
        IF bearer # {}
        THEN ~ctx.authToken.isNull /\ bearer = {ctx.authToken.value}
        ELSE ctx.authToken.isNull

\* a header with spaces before "Bearer", two between it and the token, and
\* one after the token yielded the token
C24_Witness ==
    /\ ctx.pc # "extract"
    /\ request.authorization = Header(Sp \o Bearer \o Sp \o Sp \o Jwt1 \o Sp)
    /\ ctx.authToken = Token(Jwt1)

\* C25: the verifier is called at most once for a request, and a request
\* whose Authorization header holds a Bearer token that the verifier rejects
\* gets 401, whatever the CF-Access-Jwt-Assertion header holds.
C25_NoFallbackAfterVerify ==
    ctx # NoContext =>
        /\ ctx.verifyCalls <= 1
        /\ (Handled /\ ~ctx.token.isNull) => ctx.verifyCalls = 1
        /\ ( /\ Handled
             /\ BearerTokensOf(request.authorization) # {}
             /\ \A t \in BearerTokensOf(request.authorization) :
                    verify(request.env, t) = NullPayload
           ) => /\ ctx.response.status = 401
                /\ ~ctx.nextCalled
                /\ ctx.auth = Undefined

\* the verifier rejected the Bearer token and would have accepted the token
\* of the CF-Access-Jwt-Assertion header: the request got 401
C25_Witness ==
    /\ Handled
    /\ request.authorization = Header(Bearer \o Sp \o Jwt1)
    /\ request.cfAccess = Header(Jwt2)
    /\ request.env.j1 = NullPayload
    /\ request.env.j2 \in VerifiedClaims
    /\ ctx.response.status = 401

C30_EmptyPolicyIsNoPolicy ==
    (ctx # NoContext /\ Handled /\ (request.policy = 0 \/ Len(PolicyRules(1)) = 0)) =>
        /\ ctx.response.status # 403
        /\ IF Verified
           THEN /\ ctx.nextCalled
                /\ ctx.response = NoResponse
                /\ ctx.auth = verify(request.env, ctx.token.value)
           ELSE /\ ~ctx.nextCalled
                /\ ctx.auth = Undefined
                /\ ctx.response.status = 401
                /\ ctx.response.body =
                        [error |-> "unauthorized",
                         message |-> IF ctx.token.isNull
                                     THEN "Missing or invalid Authorization or CF-Access-Jwt-Assertion header"
                                     ELSE "Invalid or expired token"]

\* a guard with a policy of zero rules evaluated it and called next
C30_Witness ==
    /\ Handled
    /\ request.policy = 1
    /\ Len(PolicyRules(1)) = 0
    /\ call.op = "evaluate"
    /\ result = Success
    /\ ctx.nextCalled
    /\ ctx.auth \in VerifiedClaims

====
